---- MODULE Spec2Model ----
(***************************************************************************)
(* A model of PlanView (src/unnamed/part_000), the Gantt renderer of a     *)
(* PDDL plan, and of the demo page that drives it (src/unnamed/part_001).  *)
(*                                                                         *)
(* Times and durations are integers counted in a fixed time unit; pixel    *)
(* values are JavaScript numbers: an exact fraction, NaN, Infinity or      *)
(* -Infinity.  Arithmetic on finite values is exact: the rounding of        *)
(* IEEE 754 doubles is not modelled.  An optional value (T | undefined) is *)
(* <<>> when undefined and <<v>> when it holds v.                          *)
(***************************************************************************)
EXTENDS Integers, Sequences, FiniteSets, TLC

VARIABLES
    options,   \* PlanView.options: [displayWidth, epsilon]
    gantt,     \* the host's '.gantt' div: undefined, or <<[plan, height, children]>>
    call,      \* the arguments of the most recent showPlan call, or undefined
    step,      \* the PlanStep handed to the function under study
    other,     \* a second PlanStep (colour assignment compares two)
    plan,      \* the Plan handed to the function under study
    result     \* what the last applied function returned, or undefined

vars == <<options, gantt, call, step, other, plan, result>>

----------------------------------------------------------------------------
(* Bounds of the model *)

MaxTime == 2
MaxDuration == 2
MaxSteps == 2
MaxCalls == 2
MaxActions == 25

----------------------------------------------------------------------------
(* Optional values and JavaScript numbers *)

undefined == <<>>

Some(v) == <<v>>

\* a ?? b
Coalesce(a, b) == IF a = undefined THEN b ELSE a[1]

Abs(n) == IF n < 0 THEN -n ELSE n

RECURSIVE Gcd(_, _)
Gcd(a, b) == IF b = 0 THEN a ELSE Gcd(b, a % b)

NaN == [kind |-> "NaN"]
Infinity == [kind |-> "Infinity"]
NegInfinity == [kind |-> "-Infinity"]

\* the finite number n/d (d # 0), in lowest terms with a positive denominator
Fin(n, d) ==
    LET g == Gcd(Abs(n), Abs(d))
        s == IF d < 0 THEN -1 ELSE 1
    IN  [kind |-> "fin", num |-> (s * n) \div g, den |-> (s * d) \div g]

\* a / b on two integers, as JavaScript divides
Divide(a, b) ==
    IF b # 0 THEN Fin(a, b)
    ELSE IF a = 0 THEN NaN
    ELSE IF a > 0 THEN Infinity
    ELSE NegInfinity

\* x * k, x a JavaScript number and k an integer
Times(x, k) ==
    CASE x.kind = "NaN" -> NaN
      [] x.kind = "Infinity" ->
            IF k = 0 THEN NaN ELSE IF k > 0 THEN Infinity ELSE NegInfinity
      [] x.kind = "-Infinity" ->
            IF k = 0 THEN NaN ELSE IF k > 0 THEN NegInfinity ELSE Infinity
      [] OTHER -> Fin(x.num * k, x.den)

\* x >= k, as JavaScript compares (false on NaN)
AtLeast(x, k) ==
    CASE x.kind = "NaN" -> FALSE
      [] x.kind = "Infinity" -> TRUE
      [] x.kind = "-Infinity" -> FALSE
      [] OTHER -> x.num >= k * x.den

\* Math.max(k, x)
MathMax(k, x) ==
    CASE x.kind = "NaN" -> NaN
      [] x.kind = "Infinity" -> Infinity
      [] x.kind = "-Infinity" -> Fin(k, 1)
      [] OTHER -> IF x.num >= k * x.den THEN x ELSE Fin(k, 1)

Zero == Fin(0, 1)

----------------------------------------------------------------------------
(* PlanStep, Plan and the options *)

Commitments == {"Committed", "EndsInRelaxedPlan", "StartsInRelaxedPlan", "Unknown"}

\* PlanStep.getEndTime(): start + duration when durative, start otherwise
getEndTime(s) == IF s.isDurative THEN s.startTime + s.duration[1] ELSE s.startTime

\* step.getDuration() ?? this.options.epsilon
DurationOrEpsilon(s, opts) == Coalesce(s.duration, opts.epsilon)

DisplayWidths == {0, 300}
Epsilons == {1, 2}
Options == [displayWidth : DisplayWidths, epsilon : Epsilons, selfContained : {FALSE}]

\* an action name: a word (numbered) in one of three letter cases
Forms == {"lower", "Capital", "UPPER"}
Name(word, form) == [word |-> word, form |-> form]

\* String.prototype.toLowerCase
toLowerCase(name) == [name EXCEPT !.form = "lower"]

OptionalDurations == {undefined} \cup {Some(d) : d \in 0..MaxDuration}

\* the steps the plan parser builds: a durative step carries its duration
Steps ==
    {s \in [actionName : {Name(1, "lower")}, startTime : 0..MaxTime, duration : OptionalDurations,
            isDurative : BOOLEAN, commitment : Commitments] :
        s.isDurative => s.duration # undefined}

\* the latest end of any step, and the values of plan.now around it
MaxEnd == MaxTime + MaxDuration
OptionalNows == {undefined} \cup {Some(t) : t \in 0..(MaxEnd + 1)}

\* a plan around step s: Plan.makespan is the latest end time of its steps
PlansAround(s) ==
    [steps : {<<s>>}, now : OptionalNows, makespan : getEndTime(s)..MaxEnd,
     helpfulActions : {undefined}, domain : {undefined}]

----------------------------------------------------------------------------
(* The pure functions of PlanView *)

toViewCoordinates(time, p, opts) ==
    Times(Divide(Coalesce(time, 0), p.makespan), opts.displayWidth)

computeLeftOffset(s, p, opts) == toViewCoordinates(Some(s.startTime), p, opts)

PlanHeadNowLessStart(s, p, opts) ==
    IF p.now = undefined THEN DurationOrEpsilon(s, opts)
    ELSE IF getEndTime(s) < p.now[1]
    THEN IF s.commitment = "Committed" THEN DurationOrEpsilon(s, opts) ELSE 0
    ELSE IF s.startTime >= p.now[1] THEN 0
    ELSE CASE s.commitment = "Committed" -> DurationOrEpsilon(s, opts)
           [] s.commitment = "EndsInRelaxedPlan" -> 0
           [] s.commitment = "StartsInRelaxedPlan" -> s.startTime - p.now[1]
           [] OTHER -> 0

PlanHeadPastIncludesNow(s, p, opts) ==
    IF p.now = undefined THEN DurationOrEpsilon(s, opts)
    ELSE IF getEndTime(s) <= p.now[1]
    THEN IF s.commitment = "Committed" THEN DurationOrEpsilon(s, opts) ELSE 0
    ELSE IF s.startTime >= p.now[1] THEN 0
    ELSE CASE s.commitment = "Committed" -> DurationOrEpsilon(s, opts)
           [] s.commitment = "EndsInRelaxedPlan" -> 0
           [] s.commitment = "StartsInRelaxedPlan" -> p.now[1] - s.startTime
           [] OTHER -> 0

computePlanHeadDuration(s, p, opts) ==
    IF p.now = undefined THEN DurationOrEpsilon(s, opts)
    ELSE IF getEndTime(s) < p.now[1]
    THEN IF s.commitment = "Committed" THEN DurationOrEpsilon(s, opts) ELSE 0
    ELSE IF s.startTime >= p.now[1] THEN 0
    ELSE CASE s.commitment = "Committed" -> DurationOrEpsilon(s, opts)
           [] s.commitment = "EndsInRelaxedPlan" -> 0
           [] s.commitment = "StartsInRelaxedPlan" -> p.now[1] - s.startTime
           [] OTHER -> 0

computeWidth(planHeadDuration, p, opts) ==
    MathMax(1, toViewCoordinates(Some(planHeadDuration), p, opts))

RelaxedDurationNoEpsilon(planHeadDuration, s, opts) ==
    Coalesce(s.duration, 0) - planHeadDuration

\* the local relaxedDuration of computeRelaxedWidth
relaxedDuration(planHeadDuration, s, opts) ==
    DurationOrEpsilon(s, opts) - planHeadDuration

computeRelaxedWidth(planHeadDuration, s, p, opts) ==
    toViewCoordinates(Some(relaxedDuration(planHeadDuration, s, opts)), p, opts)

IsPlanHeadCommittedOnly(s, timeNow) ==
    \/ timeNow = undefined
    \/ s.commitment = "Committed"

isPlanHeadStep(s, timeNow) ==
    \/ timeNow = undefined
    \/ s.commitment = "Committed"
    \/ s.commitment = "EndsInRelaxedPlan"

colors ==
    << "#ff0000", "#ff4000", "#ff8000", "#ffbf00", "#ffff00", "#bfff00",
       "#80ff00", "#40ff00", "#00ff00", "#00ff40", "#00ff80", "#00ffbf",
       "#00ffff", "#00bfff", "#0080ff", "#0040ff", "#0000ff", "#4000ff",
       "#8000ff", "#bf00ff", "#ff00ff", "#ff00bf", "#ff0080", "#ff0040" >>

\* Array.prototype.findIndex on the domain's actions, zero-based, -1 if none
RECURSIVE findIndexFrom(_, _, _)
findIndexFrom(actions, name, i) ==
    IF i > Len(actions) THEN -1
    ELSE IF toLowerCase(actions[i]) = toLowerCase(name) THEN i - 1
    ELSE findIndexFrom(actions, name, i + 1)

GetActionColorTimesSix(s, domain) ==
    LET actionIndex ==
            IF domain = undefined THEN undefined
            ELSE Some(findIndexFrom(domain[1].actions, s.actionName, 1))
    IN  IF actionIndex = undefined \/ actionIndex[1] < 0 THEN "gray"
        ELSE colors[((actionIndex[1] * 6) % Len(colors)) + 1]

getActionColor(s, domain) ==
    LET actionIndex ==
            IF domain = undefined THEN undefined
            ELSE Some(findIndexFrom(domain[1].actions, s.actionName, 1))
    IN  IF actionIndex = undefined \/ actionIndex[1] < 0 THEN "gray"
        ELSE colors[((actionIndex[1] * 7) % Len(colors)) + 1]

\* renderGanttStep, line 91
actionColor(s, p) ==
    IF p.domain # undefined THEN getActionColor(s, p.domain) ELSE "gray"

----------------------------------------------------------------------------
(* The document: the elements PlanView builds *)

planStepHeight == 20
DIGITS == 4

\* px(): the number with its unit
px(valueInPx) == [value |-> valueInPx, unit |-> "px"]

\* Number.prototype.toFixed on a whole number
toFixed(n, digits) == [whole |-> n, decimals |-> digits]

\* Plan.hasHelpfulActions()
hasHelpfulActions(p) == p.helpfulActions # undefined /\ Len(p.helpfulActions[1]) > 0

\* settings?.shouldDisplay(planStep) ?? true; the settings hide a set of words
shouldDisplay(planStep, settings) ==
    IF settings = undefined THEN TRUE
    ELSE planStep.actionName.word \notin settings[1].hidden

\* capitalize(plan): the letter case of the plan's names, nothing else
capitalize(p) ==
    [p EXCEPT !.steps =
        [i \in DOMAIN p.steps |->
            [p.steps[i] EXCEPT !.actionName = [@ EXCEPT !.form = "Capital"]]]]

toActionTooltipPlain(s) ==
    [actionName |-> s.actionName,
     startTime |-> toFixed(s.startTime, DIGITS),
     durationRow |->
        IF s.isDurative /\ s.duration # undefined
        THEN Some([duration |-> toFixed(s.duration[1], DIGITS),
                   end |-> toFixed(getEndTime(s), DIGITS)])
        ELSE undefined]

toActionLink(actionName, p, opts) ==
    IF opts.selfContained \/ p.domain = undefined
    THEN [text |-> actionName]
    ELSE [tag |-> "a", href |-> <<"command:pddl.revealAction", actionName>>,
          innerText |-> actionName]

getActionSuffix(helpfulAction) ==
    CASE helpfulAction.kind = "START" -> "start-glyph"
      [] helpfulAction.kind = "END" -> "end-glyph"
      [] OTHER -> ""

\* the children of a div after parent.appendChild(child)
appendChild(children, child) == Append(children, child)

\* renderGanttStep: the children of ganttDiv after the call
renderGanttStep(children, s, index, p, opts) ==
    LET fromTop == index * planStepHeight
        fromLeft == computeLeftOffset(s, p, opts)
        planHeadDuration == computePlanHeadDuration(s, p, opts)
        width == computeWidth(planHeadDuration, p, opts)
        widthRelaxed == computeRelaxedWidth(planHeadDuration, s, p, opts)
        planStepBar ==
            [className |-> "planstep-bar", title |-> toActionTooltipPlain(s),
             width |-> px(width), backgroundColor |-> actionColor(s, p)]
        planStepBarRelaxed ==
            [className |-> "planstep-bar-relaxed whitecarbon", width |-> px(widthRelaxed)]
        planStep ==
            [id |-> "plan${planIndex}step${index}", className |-> "planstep",
             left |-> px(fromLeft), top |-> px(fromTop),
             children |-> <<planStepBar, planStepBarRelaxed,
                            toActionLink(s.actionName, p, opts),
                            [text |-> "objects iterations"]>>]
    IN  appendChild(children, planStep)

\* renderHelpfulAction: the children of its first argument after the call
renderHelpfulAction(children, index, helpfulAction) ==
    LET number == [text |-> index + 1]
        a == [tag |-> "a", href |-> "#", onclick |-> helpfulAction.actionName,
              innerHTML |-> [name |-> helpfulAction.actionName,
                             sub |-> getActionSuffix(helpfulAction)]]
    IN  appendChild(appendChild(children, number), a)

\* helpfulActions.forEach((helpfulAction, index) => renderHelpfulAction(target, ...)),
\* from the i-th helpful action on
RECURSIVE renderEachHelpfulAction(_, _, _)
renderEachHelpfulAction(children, helpfulActions, i) ==
    IF i > Len(helpfulActions) THEN children
    ELSE renderEachHelpfulAction(
            renderHelpfulAction(children, i - 1, helpfulActions[i]), helpfulActions, i + 1)

\* renderHelpfulActions: the children of ganttDiv after the call.  The entries
\* are appended to ganttDiv (line 135), the marker holds the arrow alone.
renderHelpfulActions(children, p, planHeadLength, opts) ==
    IF hasHelpfulActions(p)
    THEN LET fromTop == planHeadLength * planStepHeight
             fromLeft == toViewCoordinates(p.now, p, opts)
             helpfulActions ==
                [className |-> "planstep", left |-> px(fromLeft), top |-> px(fromTop),
                 marginTop |-> px(3), children |-> <<[text |-> "arrow"]>>]
             withEntries == renderEachHelpfulAction(children, Coalesce(p.helpfulActions, <<>>), 1)
         IN  appendChild(withEntries, helpfulActions)
    ELSE children

\* steps.map((step, stepIndex) => renderGanttStep(ganttDiv, step, stepIndex + offset, plan)),
\* from the i-th step on
RECURSIVE renderEachStep(_, _, _, _, _, _)
renderEachStep(children, steps, i, offset, p, opts) ==
    IF i > Len(steps) THEN children
    ELSE renderEachStep(
            renderGanttStep(children, steps[i], (i - 1) + offset, p, opts),
            steps, i + 1, offset, p, opts)

RelaxedOffsetWithoutMarker(planHeadSteps, p) == Len(planHeadSteps)

\* showGantt, line 67
relaxedPlanStepIndexOffset(planHeadSteps, p) ==
    Len(planHeadSteps) + (IF hasHelpfulActions(p) THEN 1 ELSE 0)

\* showGantt: the gantt div after the call
showGantt(ganttDiv, p, stepsToDisplay, planIndex, opts) ==
    LET planHeadSteps == SelectSeq(stepsToDisplay, LAMBDA s : isPlanHeadStep(s, p.now))
        relaxedPlanSteps == SelectSeq(stepsToDisplay, LAMBDA s : ~isPlanHeadStep(s, p.now))
        oneIfHelpfulActionsPresent == IF hasHelpfulActions(p) THEN 1 ELSE 0
        ganttChartHeight ==
            (Len(stepsToDisplay) + oneIfHelpfulActionsPresent) * planStepHeight
        afterHead == renderEachStep(ganttDiv.children, planHeadSteps, 1, 0, p, opts)
        afterHelpful == renderHelpfulActions(afterHead, p, Len(planHeadSteps), opts)
        afterRelaxed ==
            renderEachStep(afterHelpful, relaxedPlanSteps, 1,
                           relaxedPlanStepIndexOffset(planHeadSteps, p), p, opts)
    IN  [plan |-> Some(planIndex), height |-> Some(px(ganttChartHeight)),
         children |-> afterRelaxed]

\* this.host.querySelector('.gantt') ?? this.createSubElement('gantt')
ganttOrNew(g) ==
    Coalesce(g, [plan |-> undefined, height |-> undefined, children |-> <<>>])

----------------------------------------------------------------------------
(* The page: one PlanView, shown plans one after the other *)

\* the options the page constructs its PlanView with
PageOptions == [displayWidth |-> 300, epsilon |-> 1, selfContained |-> FALSE]

CommitmentOf(i) ==
    <<"StartsInRelaxedPlan", "Committed", "Unknown", "EndsInRelaxedPlan">>[((i - 1) % 4) + 1]

\* the i-th step of the plans shown: starts at i - 1; durative (2 long) when i
\* is odd, instantaneous when even; its action is one of three words
PlanStepAt(i) ==
    [actionName |-> Name(((i - 1) % 3) + 1, "lower"), startTime |-> i - 1,
     duration |-> IF i % 2 = 1 THEN Some(2) ELSE undefined,
     isDurative |-> (i % 2 = 1), commitment |-> CommitmentOf(i)]

RECURSIVE MaxEndTime(_, _)
MaxEndTime(steps, i) ==
    IF i > Len(steps) THEN 0
    ELSE LET rest == MaxEndTime(steps, i + 1)
             end == getEndTime(steps[i])
         IN  IF end > rest THEN end ELSE rest

HelpfulAction(word, kind) == [actionName |-> Name(word, "lower"), kind |-> kind]

HelpfulActionLists ==
    {undefined,
     Some(<<HelpfulAction(1, "START")>>),
     Some(<<HelpfulAction(2, "END"), HelpfulAction(3, "INSTANTANEOUS")>>)}

PageDomains == {undefined, Some([actions |-> <<Name(2, "lower"), Name(1, "lower")>>])}

\* the plans the page shows: Plan.makespan is the latest end time of the steps
Plans ==
    {[steps |-> [i \in 1..n |-> PlanStepAt(i)], now |-> now,
      makespan |-> MaxEndTime([i \in 1..n |-> PlanStepAt(i)], 1),
      helpfulActions |-> h, domain |-> d] :
        n \in 0..MaxSteps, now \in {undefined, Some(1)},
        h \in HelpfulActionLists, d \in PageDomains}

\* no settings, or settings that hide the steps of the second word
SettingsChoices == {undefined, Some([hidden |-> {2}])}

Init ==
    /\ options = PageOptions
    /\ gantt = undefined
    /\ call = undefined
    /\ step = PlanStepAt(1)
    /\ other = PlanStepAt(1)
    /\ plan = undefined
    /\ result = undefined

CallNumber == IF call = undefined THEN 0 ELSE call[1].number

\* showPlan(plan, planIndex, settings); call keeps what showGantt was handed and
\* how many children ganttDiv had before
ShowPlan ==
    /\ CallNumber < MaxCalls
    /\ \E shown \in Plans, planIndex \in {0}, settings \in SettingsChoices :
        LET capitalized == capitalize(shown)
            stepsToDisplay ==
                SelectSeq(capitalized.steps, LAMBDA s : shouldDisplay(s, settings))
            ganttDiv == ganttOrNew(gantt)
        IN  /\ gantt' = Some(showGantt(ganttDiv, capitalized, stepsToDisplay,
                                        planIndex, options))
            /\ call' = Some([number |-> CallNumber + 1, plan |-> capitalized,
                              stepsToDisplay |-> stepsToDisplay,
                              planIndex |-> planIndex,
                              before |-> Len(ganttDiv.children)])
    /\ UNCHANGED <<options, step, other, plan, result>>

Next == ShowPlan

Spec == Init /\ [][Next]_vars

----------------------------------------------------------------------------
(* The functions applied to one step of one plan *)

InitCalc ==
    /\ options \in Options
    /\ step \in Steps
    /\ plan \in PlansAround(step)
    /\ other = step
    /\ gantt = undefined
    /\ call = undefined
    /\ result = undefined

Returns(r) ==
    /\ result' = Some(r)
    /\ UNCHANGED <<options, gantt, call, step, other, plan>>

ToViewCoordinates ==
    \E time \in {undefined} \cup {Some(t) : t \in 0..MaxTime} :
        Returns([op |-> "toViewCoordinates", time |-> time,
                 value |-> toViewCoordinates(time, plan, options)])

ComputeLeftOffset ==
    Returns([op |-> "computeLeftOffset",
             value |-> computeLeftOffset(step, plan, options)])

ComputePlanHeadDuration ==
    Returns([op |-> "computePlanHeadDuration",
             value |-> computePlanHeadDuration(step, plan, options)])

ComputeWidth ==
    \E planHeadDuration \in 0..MaxDuration :
        Returns([op |-> "computeWidth", planHeadDuration |-> planHeadDuration,
                 value |-> computeWidth(planHeadDuration, plan, options)])

\* renderGanttStep, lines 87 and 89
ComputeRelaxedWidth ==
    LET planHeadDuration == computePlanHeadDuration(step, plan, options)
    IN  Returns([op |-> "computeRelaxedWidth",
                 planHeadDuration |-> planHeadDuration,
                 relaxedDuration |-> relaxedDuration(planHeadDuration, step, options),
                 value |-> computeRelaxedWidth(planHeadDuration, step, plan, options)])

IsPlanHeadStep ==
    Returns([op |-> "isPlanHeadStep", value |-> isPlanHeadStep(step, plan.now)])

NextCalc ==
    \/ ToViewCoordinates
    \/ ComputeLeftOffset
    \/ ComputePlanHeadDuration
    \/ ComputeWidth
    \/ ComputeRelaxedWidth
    \/ IsPlanHeadStep

SpecCalc == InitCalc /\ [][NextCalc]_vars

Returned(op) == result # undefined /\ result[1].op = op

----------------------------------------------------------------------------
(* Colour assignment applied to two steps of one plan *)

\* a domain of MaxActions actions, the i-th named by word i in a letter case of
\* its own; with dup > 0 the action after the dup-th repeats the dup-th's word
DomainWith(dup) ==
    [actions |->
        [i \in 1..MaxActions |->
            Name(IF dup > 0 /\ i = dup + 1 THEN dup ELSE i,
                 IF i % 2 = 0 THEN "Capital" ELSE "lower")]]

Domains ==
    {undefined, Some([actions |-> <<>>])}
        \cup {Some(DomainWith(dup)) : dup \in 0..(MaxActions - 1)}

\* steps named by a word of the domain, or by one word more
ColourStep(word, form) ==
    [actionName |-> Name(word, form), startTime |-> 0, duration |-> undefined,
     isDurative |-> FALSE, commitment |-> "Committed"]

InitColour ==
    /\ options = [displayWidth |-> 300, epsilon |-> 1, selfContained |-> FALSE]
    /\ step \in {ColourStep(w, f) : w \in 1..(MaxActions + 1), f \in {"lower", "UPPER"}}
    /\ other \in {ColourStep(w, "Capital") : w \in 1..(MaxActions + 1)}
    /\ plan \in [steps : {<<step, other>>}, now : {undefined}, makespan : {0},
                  helpfulActions : {undefined}, domain : Domains]
    /\ gantt = undefined
    /\ call = undefined
    /\ result = undefined

GetActionColor ==
    Returns([op |-> "getActionColor",
             value |-> getActionColor(step, plan.domain),
             otherValue |-> getActionColor(other, plan.domain)])

ActionColor ==
    Returns([op |-> "actionColor",
             value |-> actionColor(step, plan),
             otherValue |-> actionColor(other, plan)])

NextColour ==
    \/ GetActionColor
    \/ ActionColor

SpecColour == InitColour /\ [][NextColour]_vars

----------------------------------------------------------------------------
(* Claims about the functions *)

C3_ZeroMakespanGivesZero ==
    (Returned("toViewCoordinates") /\ plan.makespan = 0) => result[1].value = Zero

\* C4: computeWidth returns a value >= 1 for every finite non-negative
\* planHeadDuration, whatever the makespan (0 included) and displayWidth.
C4_WidthAtLeastOne ==
    Returned("computeWidth") => AtLeast(result[1].value, 1)

\* C5: isPlanHeadStep is true exactly when now is undefined or the step's
\* commitment is Committed or EndsInRelaxedPlan.
C5_PlanHeadExactly ==
    Returned("isPlanHeadStep") =>
        (result[1].value <=>
            (plan.now = undefined
                \/ step.commitment \in {"Committed", "EndsInRelaxedPlan"}))

\* C5 witness: with now defined, a StartsInRelaxedPlan step was classified relaxed.
C5_Witness ==
    /\ Returned("isPlanHeadStep")
    /\ plan.now # undefined
    /\ step.commitment = "StartsInRelaxedPlan"
    /\ result[1].value = FALSE

\* C7: the decision table of computePlanHeadDuration.  now undefined: the full
\* duration (or epsilon).  end < now: the full duration if Committed, else 0.
\* Otherwise start >= now: 0.  Otherwise (the step straddles now): Committed
\* the full duration, EndsInRelaxedPlan 0, StartsInRelaxedPlan now - start,
\* any other commitment 0.
C7_DecisionTable ==
    Returned("computePlanHeadDuration") =>
        LET v == result[1].value
            full == Coalesce(step.duration, options.epsilon)
            end == IF step.isDurative THEN step.startTime + step.duration[1]
                   ELSE step.startTime
            c == step.commitment
        IN  /\ plan.now = undefined => v = full
            /\ plan.now # undefined =>
                LET now == plan.now[1] IN
                /\ end < now => v = (IF c = "Committed" THEN full ELSE 0)
                /\ (end >= now /\ step.startTime >= now) => v = 0
                /\ (end >= now /\ step.startTime < now) =>
                    /\ c = "Committed" => v = full
                    /\ c = "EndsInRelaxedPlan" => v = 0
                    /\ c = "StartsInRelaxedPlan" => v = now - step.startTime
                    /\ c = "Unknown" => v = 0

\* C7 witness: a StartsInRelaxedPlan step that ends exactly at now is committed
\* up to now.
C7_Witness ==
    /\ Returned("computePlanHeadDuration")
    /\ plan.now # undefined
    /\ step.commitment = "StartsInRelaxedPlan"
    /\ step.isDurative
    /\ step.startTime < plan.now[1]
    /\ step.startTime + step.duration[1] = plan.now[1]
    /\ result[1].value = plan.now[1] - step.startTime

Matches(name) ==
    IF plan.domain = undefined THEN {}
    ELSE {i \in 0..(Len(plan.domain[1].actions) - 1) :
            plan.domain[1].actions[i + 1].word = name.word}

ColourReturned == Returned("getActionColor") \/ Returned("actionColor")

\* the first part of C10: 'gray' without a domain or without a match, and
\* otherwise colors[(index * 7) mod 24], index being the first match
C10_GrayOrPalette ==
    LET m == Matches(step.actionName)
    IN  IF m = {} THEN result[1].value = "gray"
        ELSE \E index \in m :
                /\ \A i \in m : index <= i
                /\ result[1].value = colors[((index * 7) % 24) + 1]

\* C10 as stated: getActionColor gives 'gray' or colors[(index * 7) mod 24], and
\* any two actions at distinct indices below 24 of the domain's action list get
\* distinct colours.
C10_DistinctIndicesDistinctColours ==
    ColourReturned =>
        /\ C10_GrayOrPalette
        /\ \A i \in Matches(step.actionName), j \in Matches(other.actionName) :
                (i # j /\ i < 24 /\ j < 24) =>
                    result[1].value # result[1].otherValue

\* C10 amended: ... any two actions at indices below 24 whose names differ
\* (letter case aside) get distinct colours; two actions of one name share the
\* colour of the first.
C10_DistinctNamesDistinctColours ==
    ColourReturned =>
        /\ C10_GrayOrPalette
        /\ \A i \in Matches(step.actionName), j \in Matches(other.actionName) :
                (step.actionName.word # other.actionName.word /\ i < 24 /\ j < 24) =>
                    result[1].value # result[1].otherValue

\* C10 witness: two differently named actions, the second at the last index
\* below 24, matched in another letter case and coloured differently.
C10_Witness ==
    /\ Returned("getActionColor")
    /\ step.actionName.word # other.actionName.word
    /\ step.actionName.form = "UPPER"
    /\ Matches(step.actionName) = {0}
    /\ Matches(other.actionName) = {23}
    /\ result[1].value = colors[1]
    /\ result[1].otherValue = colors[((23 * 7) % 24) + 1]

----------------------------------------------------------------------------
(* Claims about the page *)

Shown == call # undefined

\* what the last showGantt call was handed
LastPlan == call[1].plan
LastSteps == call[1].stepsToDisplay
LastHelpful == IF LastPlan.helpfulActions # undefined
                  /\ LastPlan.helpfulActions[1] # <<>> THEN 1 ELSE 0

\* the positioned rows among nodes: the planstep elements
Rows(nodes) == SelectSeq(nodes, LAMBDA n : "className" \in DOMAIN n)

\* the nodes the last call appended to the gantt div
Appended == SubSeq(gantt[1].children, call[1].before + 1, Len(gantt[1].children))

IsStepRow(n) == "id" \in DOMAIN n
IsMarkerRow(n) == "marginTop" \in DOMAIN n

\* C1: after any sequence of showPlan calls the gantt div holds the elements of
\* the most recent call only: it has as many planstep children as the last plan
\* has visible steps, plus one if that plan has helpful actions.  (The count of
\* all child nodes is never smaller, so the claim implies this.)
C1_OnlyLastCallRendered ==
    Shown => Len(Rows(gantt[1].children)) = Len(LastSteps) + LastHelpful

\* C6: with helpful actions, the marker is at left = toViewCoordinates(plan.now)
\* on the row right after the plan-head steps, and the marker itself holds, after
\* its arrow, one numbered entry per helpful action, in plan order, each with its
\* name and START/END suffix.
C6_MarkerHoldsEntries ==
    (Shown /\ LastHelpful = 1) =>
        LET markers == SelectSeq(Appended, IsMarkerRow)
            helpful == LastPlan.helpfulActions[1]
            headCount ==
                Cardinality({i \in DOMAIN LastSteps :
                    \/ LastPlan.now = undefined
                    \/ LastSteps[i].commitment \in {"Committed", "EndsInRelaxedPlan"}})
        IN  /\ Len(markers) = 1
            /\ markers[1].left = px(toViewCoordinates(LastPlan.now, LastPlan, options))
            /\ markers[1].top = px(headCount * planStepHeight)
            /\ Len(markers[1].children) = 1 + 2 * Len(helpful)
            /\ \A i \in DOMAIN helpful :
                    /\ markers[1].children[2 * i].text = i
                    /\ markers[1].children[2 * i + 1].innerHTML.name = helpful[i].actionName
                    /\ markers[1].children[2 * i + 1].innerHTML.sub =
                            (IF helpful[i].kind = "START" THEN "start-glyph"
                             ELSE IF helpful[i].kind = "END" THEN "end-glyph" ELSE "")

\* the visible steps of the last call that are plan-head (relaxed), in plan order
LastHead ==
    SelectSeq(LastSteps, LAMBDA s :
        LastPlan.now = undefined \/ s.commitment \in {"Committed", "EndsInRelaxedPlan"})
LastRelaxed ==
    SelectSeq(LastSteps, LAMBDA s :
        ~(LastPlan.now = undefined \/ s.commitment \in {"Committed", "EndsInRelaxedPlan"}))

\* the top offsets at which the last call rendered step s
TopsOfStep(s) ==
    {Appended[i].top.value : i \in {j \in DOMAIN Appended :
        IsStepRow(Appended[j])
            /\ Appended[j].children[1].title.startTime.whole = s.startTime}}

\* C9: one showGantt call renders every visible step exactly once and no two of
\* its elements share a row: the plan-head steps take rows 0..len(planHead)-1 in
\* their order, the helpful-actions marker (if any) row len(planHead), the relaxed
\* steps the rows after it in their order, and every top offset is below the
\* canvas height (visible steps + hasHelpfulActions) * planStepHeight.
C9_OneRowEach ==
    Shown =>
        LET rows == Rows(Appended)
            stepRows == SelectSeq(rows, IsStepRow)
            markers == SelectSeq(rows, IsMarkerRow)
            height == (Len(LastSteps) + LastHelpful) * planStepHeight
        IN  /\ Len(stepRows) = Len(LastSteps)
            /\ Len(markers) = LastHelpful
            /\ \A i, j \in DOMAIN rows : i # j => rows[i].top # rows[j].top
            /\ \A k \in DOMAIN LastHead : TopsOfStep(LastHead[k]) = {(k - 1) * planStepHeight}
            /\ \A k \in DOMAIN markers : markers[k].top = px(Len(LastHead) * planStepHeight)
            /\ \A k \in DOMAIN LastRelaxed :
                    TopsOfStep(LastRelaxed[k]) =
                        {(Len(LastHead) + LastHelpful + k - 1) * planStepHeight}
            /\ gantt[1].height = Some(px(height))
            /\ \A i \in DOMAIN rows : rows[i].top.value < height

\* C9 witness: a second call that rendered a plan-head step, the marker and a
\* relaxed step that precedes the plan-head step in the plan.
C9_Witness ==
    /\ Shown
    /\ LastHelpful = 1
    /\ Len(LastHead) >= 1
    /\ Len(LastRelaxed) >= 1
    /\ LastRelaxed[1].startTime < LastHead[1].startTime
    /\ call[1].before > 0
    /\ Len(Rows(Appended)) = Len(LastSteps) + 1

====
